---------------------------- MODULE Spec2Model ----------------------------
(***************************************************************************)
(* State-machine model of the bittle_ROS2 decision/control nodes.          *)
(*                                                                         *)
(*   node = "driver"      archive/object_detection_driver.py   (Driver)    *)
(*   node = "to_command"  archive/object_detection_to_command.py (Driver)  *)
(*   node = "nav"         move_to_grid_server.py     (MoveToGridServer)     *)
(*                                                                         *)
(* Each run of the package executes one node (each file has its own        *)
(* main()), so Init chooses the node and the handlers of that node are the *)
(* actions.  A handler is one atomic action: rclpy's default executor runs *)
(* the callbacks of these two nodes one at a time.                         *)
(*                                                                         *)
(* Numbers: bbox coordinates are normalised floats in the source; they are *)
(* modelled in hundredths (0.75 is 75), so every comparison of the source  *)
(* keeps its strictness.  Python lists are sequences; Python index i is    *)
(* TLA+ index i+1.                                                         *)
(***************************************************************************)
EXTENDS Integers, Sequences, FiniteSets, TLC

VARIABLES
    node,                       \* which program of the package is running
    halted,                     \* the process ended: a callback raised or never returned
    fault,                      \* what ended it ("none" while running)
    now,                        \* wall clock, seconds (time.time())
    msg,                        \* the Detection message handled last
    acorn_list,                 \* self.acorn_list
    black_pheromone_list,       \* self.black_pheromone_list
    white_pheromone_list,       \* self.white_pheromone_list
    proposal,                   \* the handler's local decision of the last cycle: <<>> or <<value>>
    \* ---- object_detection_driver.Driver
    dir,                        \* self.dir: the directive dispatched last
    num_commands_sent,          \* self.num_commands_sent
    last_command_time,          \* self.last_command_time
    found_acorn,                \* self.found_acorn
    searching,                  \* self.searching
    collecting,                 \* self.collecting
    black_pheromones_dropped,   \* self.black_pheromones_dropped
    white_pheromones_dropped,   \* self.white_pheromones_dropped
    ser,                        \* characters written to the serial port in the last cycle
    task,                       \* the task handed to wrapper last
    \* ---- object_detection_to_command.Driver
    current_state,              \* self.current_state (dict)
    command_list,               \* self.command_list: the arbitration buffer
    command_pub,                \* Command published on serial_command_topic in the last cycle
    \* ---- move_to_grid_server.MoveToGridServer
    target_square,              \* self.target_square ("None" before the first goal)
    current_heading,            \* self.current_heading: <<>> (None) or <<degrees>>
    current_position,           \* self.current_position: <<>> (None, or no tag) or <<x, y>>
    error,                      \* self.error: <<>> (None) or <<distance>>
    detections,                 \* self.detections
    current_cmd,                \* self.current_cmd
    previous_robot_position,    \* self.previous_robot_position: the position the last step used
    dmsg,                       \* the Detection message detection_callback handles (handled last)
    dpc,                        \* detection_callback: "idle", or "position" after line 140
    epc,                        \* execute_callback: "idle", or "move" before move_towards_target
    direction_vector,           \* the argument of the pending move_towards_target
    nav_heading,                \* the heading move_towards_target read last: <<>> or <<degrees>>
    theta,                      \* the angle move_towards_target computed last: <<>> or <<angle>>
    selected,                   \* the directive the last navigation step passed to publish_command
    nav_pub,                    \* Command published on 'command' by the last goal execution
    last_pub,                   \* the command published last on 'command' ("none": nothing yet)
    goal_status,                \* terminal state of the last goal
    nav_step                    \* the navigation step of the last goal: "none", "skipped", "ran"

listVars == <<acorn_list, black_pheromone_list, white_pheromone_list>>
drvVars  == <<dir, num_commands_sent, last_command_time, found_acorn, searching,
              collecting, black_pheromones_dropped, white_pheromones_dropped, ser,
              task>>
cmdVars  == <<current_state, command_list, command_pub>>
navVars  == <<target_square, current_heading, current_position, error, detections,
              current_cmd, previous_robot_position, dmsg, dpc, epc, direction_vector,
              nav_heading, theta, selected, nav_pub, last_pub, goal_status, nav_step>>
vars     == <<node, halted, fault, now, msg, listVars, proposal, drvVars, cmdVars,
              navVars>>

---------------------------------------------------------------------------
(* Bounds of the model *)

MaxDet  == 2        \* detections per batch
Epoch   == 5        \* wall clock at start-up (time.time() is far above the drop interval)
MaxTime == 10       \* the clock stops here
MaxSent == 3        \* dispatches per run of the driver node
MaxNavDets == 2     \* entries of self.detections of the navigation server
MaxArgs == 3        \* arguments of a task handed to the encoder

---------------------------------------------------------------------------
(* Detection batches *)

\* A detection is <<class id, bbox>>: class 0 acorn, 1 black pheromone, 2 white
\* pheromone.  A bbox is (x, y, w, h) in hundredths; the nodes never read w and h.
\*   (80, 50)  right of the x band
\*   (75, 90)  on the upper x threshold, low in the frame
\*   (25, 85)  on the lower x threshold and on the y threshold
\*   (20, 90)  left of the x band, low in the frame
DrvDetections ==
    { <<0, <<80, 50, 10, 10>>>>, <<0, <<75, 90, 10, 10>>>>, <<0, <<25, 85, 10, 10>>>>,
      <<0, <<20, 90, 10, 10>>>>,
      <<1, <<75, 90, 10, 10>>>>,
      <<2, <<20, 90, 10, 10>>>> }

SeqsUpTo(S, n) == UNION { [1 .. k -> S] : k \in 0 .. n }

RECURSIVE Flatten(_)
Flatten(bs) == IF bs = <<>> THEN <<>> ELSE Head(bs) \o Flatten(Tail(bs))

\* the Detection message with the class ids r and the bbox tuples b
Batch(r, b) == [results |-> r, xywhn_list |-> Flatten(b)]

\* the message of the detections ds: one bbox tuple per class id, as the detector publishes
BatchOf(ds) == Batch([i \in 1 .. Len(ds) |-> ds[i][1]], [i \in 1 .. Len(ds) |-> ds[i][2]])

DrvBatches == { BatchOf(ds) : ds \in SeqsUpTo(DrvDetections, MaxDet) }

\* The detections fed to the to_command node; class id 3 is no class of the detector.
\*   (70, 50), (30, 50)  on the x thresholds of follow_object
\*   (50, 95)            inside the x band, below the collecting line
CmdDetections ==
    { <<0, <<80, 50, 10, 10>>>>, <<0, <<75, 90, 10, 10>>>>, <<0, <<70, 50, 10, 10>>>>,
      <<0, <<30, 50, 10, 10>>>>, <<0, <<50, 95, 10, 10>>>>,
      <<1, <<75, 90, 10, 10>>>>, <<1, <<25, 85, 10, 10>>>>,
      <<2, <<20, 90, 10, 10>>>>,
      <<3, <<80, 50, 10, 10>>>> }

CmdBatches == { BatchOf(ds) : ds \in SeqsUpTo(CmdDetections, MaxDet) }

\* the message of ds with only k bbox tuples: the last ones missing (k < Len(ds)) or
\* one too many (k = Len(ds) + 1)
BatchCut(ds, k) ==
    LET n == Len(ds) IN
    Batch([i \in 1 .. n |-> ds[i][1]],
          [i \in 1 .. k |-> IF i <= n THEN ds[i][2] ELSE <<50, 95, 10, 10>>])

\* every message, the class-id count and the bbox-tuple count equal or not
AnyCmdBatches ==
    UNION { { BatchCut(ds, k) : k \in 0 .. (Len(ds) + 1) } :
              ds \in SeqsUpTo(CmdDetections, MaxDet) }

\* the classifier's precondition in the spec: counts agree and every class id is known
WellFormed(m) ==
    /\ Len(m.xywhn_list) = 4 * Len(m.results)
    /\ \A i \in 1 .. Len(m.results) : m.results[i] \in {0, 1, 2}

NoMsg == [results |-> <<>>, xywhn_list |-> <<>>]

---------------------------------------------------------------------------
(* Detection classifier: Driver.callback (driver) and                      *)
(* Driver.process_detections (to_command) hold the same loop.              *)

Min(a, b) == IF a < b THEN a ELSE b

Last(l) == l[Len(l)]                                    \* l[-1]

\* xywhn_list[(i*4):(4*(i+1))], i counted from 0: a slice never raises, it is cut short
Slice(xs, i) == SubSeq(xs, 4 * i + 1, Min(4 * (i + 1), Len(xs)))

\* the list the loop builds for class id c: the slices of the detections of class c, in order
ClassList(results, xywhn, c) ==
    LET F[k \in 0 .. Len(results)] ==
            IF k = 0 THEN <<>>
            ELSE IF results[k] = c THEN Append(F[k - 1], Slice(xywhn, k - 1))
                 ELSE F[k - 1]
    IN  F[Len(results)]

AcornList(m) == ClassList(m.results, m.xywhn_list, 0)
BlackList(m) == ClassList(m.results, m.xywhn_list, 1)
WhiteList(m) == ClassList(m.results, m.xywhn_list, 2)

---------------------------------------------------------------------------
(* object_detection_driver.py *)

\* dir_dict: the serial token of each directive, as characters
dir_dict(d) ==
    CASE d = 1  -> <<"k", "c", "r", "F">>
      [] d = -1 -> <<"k", "b", "k">>
      [] d = 2  -> <<"k", "c", "r", "L">>
      [] d = 3  -> <<"k", "c", "r", "R">>
      [] d = 0  -> <<"k", "b", "a", "l", "a", "n", "c", "e">>
      [] d = 4  -> <<"k", "p", "o", "n", "e">>
      [] d = 5  -> <<"k", "p", "t", "w", "o">>
      [] d = 6  -> <<"k", "p", "t", "h", "r", "e", "e">>
      [] d = 7  -> <<"k", "p", "f", "o", "u", "r">>
      [] d = 8  -> <<"k", "c", "o", "l", "l", "e", "c", "t", "F">>
      [] d = 9  -> <<"k", "t", "u", "r", "n">>

TurnRight   == 3
TurnLeft    == 2
MoveForward == 1
Collect     == 8
SpinSearch  == 9
Balance     == 0
DropType1   == 4
DropType2   == 5
DropType3   == 6
DropType4   == 7
DropDirs    == {DropType1, DropType2, DropType3, DropType4}

RightX       == 75      \* x > 0.75
LeftX        == 25      \* x < 0.25
CollectY     == 85      \* y > 0.85
DropInterval == 5       \* time_since_last_command >= 5
DropSwitch   == 9       \* ..._pheromones_dropped <= 9

Ok(d)    == [err |-> "none", dir |-> d]
Raise(e) == [err |-> e, dir |-> 0]

\* AcornDir with the vertical threshold tested before the horizontal ones
AcornDirCollectFirst(al) ==
    LET e == Last(al) IN
    IF Len(e) < 2 THEN Raise("IndexError")
    ELSE IF e[2] > CollectY THEN Ok(Collect)
    ELSE IF e[1] > RightX THEN Ok(TurnRight)
    ELSE IF e[1] < LeftX THEN Ok(TurnLeft)
    ELSE Ok(MoveForward)

\* lines 84-95: the directive from the last acorn; an index past a short slice raises
AcornDir(al) ==
    LET e == Last(al) IN
    IF Len(e) < 1 THEN Raise("IndexError")
    ELSE IF e[1] > RightX THEN Ok(TurnRight)
    ELSE IF e[1] < LeftX THEN Ok(TurnLeft)
    ELSE IF Len(e) < 2 THEN Raise("IndexError")
    ELSE IF e[2] > CollectY THEN Ok(Collect)
    ELSE Ok(MoveForward)

\* PheromoneDir with the thresholds included in the turns (>= and <=)
PheromoneDirInclusive(l) ==
    LET e == Last(l) IN
    IF Len(e) < 1 THEN Raise("IndexError")
    ELSE IF e[1] >= RightX THEN Ok(TurnRight)
    ELSE IF e[1] <= LeftX THEN Ok(TurnLeft)
    ELSE Ok(MoveForward)

\* lines 99-107 and 110-118: the directive from the last pheromone of a list
PheromoneDir(l) ==
    LET e == Last(l) IN
    IF Len(e) < 1 THEN Raise("IndexError")
    ELSE IF e[1] > RightX THEN Ok(TurnRight)
    ELSE IF e[1] < LeftX THEN Ok(TurnLeft)
    ELSE Ok(MoveForward)

\* Propose without the test of self.searching: pheromones are followed in every phase
ProposeAnyPhase(al, bl, wl, se) ==
    IF Len(al) > 0 THEN AcornDir(al)
    ELSE IF Len(bl) > 0 THEN PheromoneDir(bl)
    ELSE IF Len(wl) > 0 THEN PheromoneDir(wl)
    ELSE Ok(SpinSearch)

\* lines 78-123: the local dir before the periodic override (se: self.searching)
Propose(al, bl, wl, se) ==
    IF Len(al) > 0 THEN AcornDir(al)
    ELSE IF se THEN
            IF Len(bl) > 0 THEN PheromoneDir(bl)
            ELSE IF Len(wl) > 0 /\ Len(bl) = 0 THEN PheromoneDir(wl)
            ELSE Ok(SpinSearch)
    ELSE Ok(Balance)

\* SeeAcorn without line 81: self.searching is left set
SeeAcornKeepSearching(al, fa, se, co) ==
    IF Len(al) > 0 /\ fa = FALSE
    THEN [found_acorn |-> TRUE, searching |-> se, collecting |-> TRUE]
    ELSE [found_acorn |-> fa, searching |-> se, collecting |-> co]

\* lines 79-82: the flags after a cycle that saw the acorn list al
SeeAcorn(al, fa, se, co) ==
    IF Len(al) > 0 /\ fa = FALSE
    THEN [found_acorn |-> TRUE, searching |-> FALSE, collecting |-> TRUE]
    ELSE [found_acorn |-> fa, searching |-> se, collecting |-> co]

\* DropOverride with the interval tested by > in place of >=
DropOverrideLate(elapsed, fa, se, black, white, d) ==
    IF elapsed > DropInterval THEN
        IF fa THEN (IF black <= DropSwitch THEN DropType1 ELSE DropType2)
        ELSE IF se THEN (IF white <= DropSwitch THEN DropType3 ELSE DropType4)
        ELSE d
    ELSE d

\* lines 125-135: the periodic drop override of the local dir d
DropOverride(elapsed, fa, se, black, white, d) ==
    IF elapsed >= DropInterval THEN
        IF fa THEN (IF black <= DropSwitch THEN DropType1 ELSE DropType2)
        ELSE IF se THEN (IF white <= DropSwitch THEN DropType3 ELSE DropType4)
        ELSE d
    ELSE d

\* A task is the list wrapper receives: [token, delay] or [token, var, delay], token a
\* string (sequence of characters), var a list of ints or a list of strings.
Task2(token, delay) ==
    [len |-> 2, token |-> token, var |-> [ints |-> FALSE, v |-> <<>>], delay |-> delay]
Task3(token, ints, v, delay) ==
    [len |-> 3, token |-> token, var |-> [ints |-> ints, v |-> v], delay |-> delay]
NoTask == [len |-> 0, token |-> <<>>, var |-> [ints |-> FALSE, v |-> <<>>], delay |-> 0]

\* str(n) of an int: its decimal numeral
Digit(d) == <<"0", "1", "2", "3", "4", "5", "6", "7", "8", "9">>[d + 1]
RECURSIVE Numeral(_)
Numeral(n) ==
    IF n < 10 THEN <<Digit(n)>> ELSE Numeral(n \div 10) \o <<Digit(n % 10)>>
str(n) == IF n < 0 THEN <<"-">> \o Numeral(-n) ELSE Numeral(n)

\* struct.pack('b' * len(var), *var): every value must be a signed byte
SignedByte(x) == -128 <= x /\ x <= 127

\* serialWriteNumToByte(token, var), var a list of ints: what ser.write receives
serialWriteNumToByte(token, var) ==
    IF token = <<"l">> \/ token = <<"i">>
        THEN IF \E k \in 1 .. Len(var) : ~SignedByte(var[k])
             THEN [err |-> "struct.error", out |-> <<>>]
             ELSE [err |-> "TypeError", out |-> <<>>]   \* str + bytes raises
    ELSE IF token \in {<<"c">>, <<"m">>, <<"u">>, <<"b">>}
        THEN IF Len(var) < 2
             THEN [err |-> "IndexError", out |-> <<>>]
             ELSE [err |-> "none",
                   out |-> token \o str(var[1]) \o <<" ">> \o str(var[2]) \o <<"\n">>]
    ELSE [err |-> "UnboundLocalError", out |-> <<>>]    \* instrStr was never assigned

\* serialWriteByte(var), var a list of strings: what ser.write receives.  The strings
\* after the first are numerals of signed bytes, so int() and struct.pack accept them.
serialWriteByte(var) ==
    LET token == var[1][1] IN
    IF token \in {"c", "m", "b", "u"} /\ Len(var) >= 2
        THEN [err |-> "none",
              out |-> LET G[k \in 0 .. Len(var)] ==
                              IF k = 0 THEN <<>> ELSE G[k - 1] \o var[k] \o <<" ">>
                      IN  G[Len(var)]]
    ELSE IF token \in {"l", "i"}
        THEN [err |-> "TypeError", out |-> <<>>]     \* str + bytes (struct.pack) raises
    ELSE IF token \in {"w", "k"}
        THEN [err |-> "none", out |-> var[1] \o <<"\n">>]
    ELSE [err |-> "none", out |-> <<token>>]

\* wrapper(task)
wrapper(t) ==
    IF t.len = 2 THEN serialWriteByte(<<t.token>>)
    ELSE IF t.var.v = <<>> THEN [err |-> "IndexError", out |-> <<>>]    \* task[1][0]
    ELSE IF t.var.ints THEN serialWriteNumToByte(t.token, t.var.v)
    ELSE serialWriteByte(t.var.v)

\* lines 137-141: dispatch of the local dir d at current_time t, when it differs from self.dir
Dispatch(d, t) ==
    IF dir # d
    THEN LET w == wrapper(Task2(dir_dict(d), 0)) IN
         /\ ser' = w.out
         /\ task' = Task2(dir_dict(d), 0)
         /\ dir' = d
         /\ num_commands_sent' = num_commands_sent + 1
         /\ last_command_time' = t
    ELSE /\ ser' = <<>>
         /\ UNCHANGED <<dir, num_commands_sent, last_command_time, task>>

\* Driver.callback followed by Driver.command_logic, on the message m
DrvCallback(m) ==
    /\ node = "driver"
    /\ ~halted
    /\ num_commands_sent < MaxSent
    /\ msg' = m
    /\ acorn_list' = AcornList(m)
    /\ black_pheromone_list' = BlackList(m)
    /\ white_pheromone_list' = WhiteList(m)
    /\ LET current_time == now
           time_since_last_command == current_time - last_command_time
           fl == SeeAcorn(acorn_list', found_acorn, searching, collecting)
           p  == Propose(acorn_list', black_pheromone_list', white_pheromone_list',
                         searching)
       IN  /\ found_acorn' = fl.found_acorn
           /\ searching' = fl.searching
           /\ collecting' = fl.collecting
           /\ IF p.err # "none"
              THEN \* the exception leaves command_logic and ends rclpy.spin
                   /\ halted' = TRUE
                   /\ fault' = p.err
                   /\ proposal' = <<>>
                   /\ ser' = <<>>
                   /\ UNCHANGED <<dir, num_commands_sent, last_command_time, task>>
              ELSE /\ proposal' = <<p.dir>>
                   /\ Dispatch(DropOverride(time_since_last_command, fl.found_acorn,
                                            fl.searching, black_pheromones_dropped,
                                            white_pheromones_dropped, p.dir),
                               current_time)
                   /\ UNCHANGED <<halted, fault>>
    /\ UNCHANGED <<node, now, black_pheromones_dropped, white_pheromones_dropped, cmdVars,
                   navVars>>

\* Driver.callback and Driver.command_logic on the message m when self.ser.write
\* (line 193) raises serial.SerialException: nothing catches it, lines 139-141 are
\* not reached and the exception ends rclpy.spin
DrvCallbackWriteFails(m) ==
    /\ node = "driver"
    /\ ~halted
    /\ num_commands_sent < MaxSent
    /\ msg' = m
    /\ acorn_list' = AcornList(m)
    /\ black_pheromone_list' = BlackList(m)
    /\ white_pheromone_list' = WhiteList(m)
    /\ LET time_since_last_command == now - last_command_time
           fl == SeeAcorn(acorn_list', found_acorn, searching, collecting)
           p  == Propose(acorn_list', black_pheromone_list', white_pheromone_list',
                         searching)
       IN  /\ p.err = "none"
           /\ dir # DropOverride(time_since_last_command, fl.found_acorn, fl.searching,
                                 black_pheromones_dropped, white_pheromones_dropped,
                                 p.dir)
           /\ found_acorn' = fl.found_acorn
           /\ searching' = fl.searching
           /\ collecting' = fl.collecting
           /\ proposal' = <<p.dir>>
    /\ halted' = TRUE
    /\ fault' = "SerialException"
    /\ ser' = <<>>
    /\ UNCHANGED <<node, now, dir, num_commands_sent, last_command_time, task,
                   black_pheromones_dropped, white_pheromones_dropped, cmdVars, navVars>>

\* The tasks handed to wrapper directly: every token class, without arguments, with up
\* to MaxArgs ints, and with up to MaxArgs - 1 strings after the token
EncTokens ==
    {<<"l">>, <<"i">>, <<"c">>, <<"m">>, <<"u">>, <<"b">>, <<"d">>, <<"w">>,
     <<"k", "s", "i", "t">>}
EncInts == {3, -2, 128}
EncStrs == {str(3), str(-2)}
EncTasks ==
    {Task2(tok, 0) : tok \in EncTokens}
    \cup {Task3(tok, TRUE, v, 0) : tok \in EncTokens, v \in SeqsUpTo(EncInts, MaxArgs)}
    \cup {Task3(tok, FALSE, <<tok>> \o v, 0) :
              tok \in EncTokens, v \in SeqsUpTo(EncStrs, MaxArgs - 1)}

\* Driver.wrapper called on the task t (lines 157-165); an exception leaves wrapper
\* before self.ser.write and, uncaught, ends the process
WrapperCall(t) ==
    /\ node = "driver"
    /\ ~halted
    /\ task' = t
    /\ LET w == wrapper(t) IN
          /\ ser' = w.out
          /\ fault' = w.err
          /\ halted' = (w.err # "none")
    /\ UNCHANGED <<node, now, msg, listVars, proposal, dir, num_commands_sent,
                   last_command_time, found_acorn, searching, collecting,
                   black_pheromones_dropped, white_pheromones_dropped, cmdVars, navVars>>

\* wall-clock time passes between two callbacks: just under the drop interval, or all of it
Tick ==
    /\ node = "driver"
    /\ ~halted
    /\ \E dt \in {DropInterval - 1, DropInterval} :
          /\ now + dt <= MaxTime
          /\ now' = now + dt
    /\ UNCHANGED <<node, halted, fault, msg, listVars, proposal, drvVars, cmdVars,
                   navVars>>

---------------------------------------------------------------------------
(* object_detection_to_command.py *)
(* Python values carry their type: a str, a number or a list of values.    *)

PyStr(x)  == [t |-> "str", v |-> x]
PyNum(x)  == [t |-> "num", v |-> x]
PyList(x) == [t |-> "list", v |-> x]

\* [cmd, delay]
CmdPair(c, d) == PyList(<<PyStr(c), PyNum(d)>>)

FollowRightX == 70      \* x > 0.7
FollowLeftX  == 30      \* x < 0.3
CollectingY  == 90      \* y > 0.9
BufferLimit  == 5       \* len(self.command_list) > 5

Val(x)   == [err |-> "none", val |-> x]
Exc(e)   == [err |-> e, val |-> PyList(<<>>)]

\* follow_object: a list holding one [cmd, 0]
follow_object(detection_list) ==
    IF Len(detection_list) > 0
    THEN LET e == Last(detection_list) IN
         IF Len(e) < 1 THEN Exc("IndexError")
         ELSE IF e[1] > FollowRightX THEN Val(PyList(<<CmdPair("kcrR", 0)>>))
         ELSE IF e[1] < FollowLeftX THEN Val(PyList(<<CmdPair("kcrL", 0)>>))
         ELSE Val(PyList(<<CmdPair("kcrF", 0)>>))
    ELSE Val(PyList(<<CmdPair("krest", 0)>>))

AlignRightX == 70
AlignLeftX  == 30
AlignNearY  == 50
AlignFarY   == 80

\* one pass of the loop of collect_acorn (lines 223-252) with the local
\* initial_detection_count = count: whether it breaks, the count it leaves, and how
\* many commands it appends
collect_pass(detection_list, count) ==
    LET x_position == Last(detection_list)[1]
        y_position == Last(detection_list)[2]
        inRange == /\ AlignLeftX <= x_position /\ x_position <= AlignRightX
                   /\ AlignNearY <= y_position /\ y_position <= AlignFarY
        shrunk  == Len(detection_list) < count
    IN  [break    |-> inRange /\ shrunk,
         count    |-> IF inRange /\ ~shrunk THEN Len(detection_list) ELSE count,
         appended |-> (IF x_position > AlignRightX \/ x_position < AlignLeftX
                         THEN 2 ELSE 0)
                      + (IF y_position < AlignNearY \/ y_position > AlignFarY
                         THEN 2 ELSE 0)
                      + (IF inRange THEN (IF shrunk THEN 2 ELSE 3) ELSE 0)]

\* collect_acorn: a pass changes neither the list nor the collected flag, so a pass
\* that does not break and leaves the count as it found it is followed by the same
\* pass again, every pass appending commands: the call does not return
collect_acorn(detection_list, collected) ==
    IF collected THEN Val(PyList(<<>>))
    ELSE IF Len(detection_list) = 0 THEN Exc("IndexError")
    ELSE IF Len(Last(detection_list)) < 2 THEN Exc("ValueError")
    ELSE LET first == collect_pass(detection_list, Len(detection_list))
             again == collect_pass(detection_list, first.count)
         IN  IF ~first.break /\ ~again.break /\ again.count = first.count
                /\ again.appended > 0
             THEN Exc("NoReturn")
             ELSE Val(PyList(<<>>))

\* update_state: one branch of the elif chain per cycle
update_state(cs, al, bl, wl) ==
    IF cs.searching /\ Len(al) > 0
        THEN [err |-> "none", cs |-> [cs EXCEPT !.searching = FALSE, !.found_acorn = TRUE]]
    ELSE IF ~cs.found_black_pheromone /\ Len(bl) > 0
        THEN [err |-> "none", cs |-> [cs EXCEPT !.found_black_pheromone = TRUE]]
    ELSE IF ~cs.found_white_pheromone /\ Len(wl) > 0
        THEN [err |-> "none", cs |-> [cs EXCEPT !.found_white_pheromone = TRUE]]
    ELSE IF Len(al) > 0
        THEN IF Len(Last(al)) < 2 THEN [err |-> "IndexError", cs |-> cs]
             ELSE IF Last(al)[2] > CollectingY
                     THEN [err |-> "none", cs |-> [cs EXCEPT !.collecting = TRUE]]
                     ELSE [err |-> "none", cs |-> cs]
    ELSE [err |-> "none", cs |-> cs]

\* decide_command
decide_command(state, al, bl, wl) ==
    IF state.found_acorn /\ ~state.collecting THEN follow_object(al)
    ELSE IF ~state.found_acorn /\ state.found_black_pheromone THEN follow_object(bl)
    ELSE IF ~state.found_acorn /\ ~state.found_black_pheromone
            /\ state.found_white_pheromone THEN follow_object(wl)
    ELSE IF state.collecting THEN collect_acorn(al, state.collected)
    ELSE Val(CmdPair("krest", 0))

\* command_pair[0] of the buffer entry i
Key(buf, i) == buf[i].v[1]

\* lines 78-86: the frequency dict after the first k entries, in insertion order
Frequency(buf, k) ==
    LET F[n \in 0 .. k] ==
            IF n = 0 THEN <<>>
            ELSE LET d == F[n - 1]
                     c == Key(buf, n)
                 IN  IF \E i \in 1 .. Len(d) : d[i].key = c
                     THEN [i \in 1 .. Len(d) |->
                              IF d[i].key = c THEN [d[i] EXCEPT !.n = @ + 1] ELSE d[i]]
                     ELSE Append(d, [key |-> c, n |-> 1])
    IN  F[k]

\* max(command_frequency, key=command_frequency.get): the first key of the largest count
MaxKey(d) ==
    LET B[n \in 1 .. Len(d)] ==
            IF n = 1 THEN d[1]
            ELSE IF d[n].n > B[n - 1].n THEN d[n] ELSE B[n - 1]
    IN  B[Len(d)].key

\* lines 89-92: the first entry whose command_pair[0] is the most frequent one
FirstWith(buf, c) == buf[CHOOSE i \in 1 .. Len(buf) :
                            Key(buf, i) = c /\ \A j \in 1 .. (i - 1) : Key(buf, j) # c]

\* publish_command up to the choice: a dict key must be hashable, and a list is not
ChooseCommand(buf) ==
    IF \E i \in 1 .. Len(buf) : Len(buf[i].v) = 0 THEN Exc("IndexError")
    ELSE IF \E i \in 1 .. Len(buf) : Key(buf, i).t = "list" THEN Exc("TypeError")
    ELSE Val(FirstWith(buf, MaxKey(Frequency(buf, Len(buf)))))

\* lines 94-96: the hard reset of the buffer
ClearIfLong(buf) == IF Len(buf) > BufferLimit THEN <<>> ELSE buf

\* Driver.detection_callback on the message m
CmdCallback(m) ==
    /\ node = "to_command"
    /\ ~halted
    /\ msg' = m
    /\ acorn_list' = AcornList(m)
    /\ black_pheromone_list' = BlackList(m)
    /\ white_pheromone_list' = WhiteList(m)
    /\ LET u == update_state(current_state, acorn_list', black_pheromone_list',
                             white_pheromone_list')
           c == decide_command(u.cs, acorn_list', black_pheromone_list',
                               white_pheromone_list')
           buf == Append(command_list, c.val)
           s == ChooseCommand(buf)
       IN  /\ current_state' = u.cs
           /\ IF u.err # "none" \/ c.err # "none"
              THEN \* update_state or decide_command raised, or never returned
                   /\ halted' = TRUE
                   /\ fault' = IF u.err # "none" THEN u.err ELSE c.err
                   /\ proposal' = <<>>
                   /\ command_pub' = <<>>
                   /\ UNCHANGED command_list
              ELSE /\ proposal' = <<c.val>>
                   /\ IF s.err # "none"
                      THEN \* publish_command raised before the reset and the publish
                           /\ halted' = TRUE
                           /\ fault' = s.err
                           /\ command_list' = buf
                           /\ command_pub' = <<>>
                      ELSE /\ command_list' = ClearIfLong(buf)
                           /\ command_pub' = <<[cmd |-> s.val.v[1].v, delay |-> s.val.v[2].v]>>
                           /\ UNCHANGED <<halted, fault>>
    /\ UNCHANGED <<node, now, drvVars, navVars>>

---------------------------------------------------------------------------
(* move_to_grid_server.py *)
(* Angles are whole degrees and pixel coordinates whole numbers.  The two   *)
(* handlers are split where one reads or writes the shared attributes, so   *)
(* that the executor's scheduling decides whether they interleave.  What    *)
(* the action server does with the value execute_callback returns is not    *)
(* part of the program text and is left out.                                *)

\* self.grid_centers
GridCells ==
    {"A1", "A2", "A3", "A4", "B1", "B2", "B3", "B4",
     "C1", "C2", "C3", "C4", "D1", "D2", "D3", "D4"}

grid_centers(c) ==
    CASE c = "A1" -> <<80, 60>>   [] c = "A2" -> <<240, 60>>
      [] c = "A3" -> <<400, 60>>  [] c = "A4" -> <<560, 60>>
      [] c = "B1" -> <<80, 180>>  [] c = "B2" -> <<240, 180>>
      [] c = "B3" -> <<400, 180>> [] c = "B4" -> <<560, 180>>
      [] c = "C1" -> <<80, 300>>  [] c = "C2" -> <<240, 300>>
      [] c = "C3" -> <<400, 300>> [] c = "C4" -> <<560, 300>>
      [] c = "D1" -> <<80, 420>>  [] c = "D2" -> <<240, 420>>
      [] c = "D3" -> <<400, 420>> [] c = "D4" -> <<560, 420>>

crawl_threshold == 10
turn_threshold  == 40
Deadband        == 20      \* self.error > 20, error > 20

\* the Detection message of the tag pose (h, p) with the detections of ds
NavMessage(h, p, ds) ==
    [april_tag_orientation |-> h, april_tag_location |-> p,
     class_names  |-> [i \in 1 .. Len(ds) |-> ds[i][1]],
     grid_squares |-> [i \in 1 .. Len(ds) |-> ds[i][2]],
     center       |-> Flatten([i \in 1 .. Len(ds) |-> ds[i][3]])]

\* The tag poses of the messages: orientation and location.  The robot is on the
\* row of B1 and B2: on the centre of B1, on the centre of B2, 10 pixels past it,
\* or not seen (an empty location).
NavPoses ==
    { <<0, <<80, 180>>>>, <<10, <<80, 180>>>>, <<25, <<80, 180>>>>,
      <<40, <<80, 180>>>>, <<90, <<80, 180>>>>, <<-90, <<80, 180>>>>,
      <<0, <<240, 180>>>>, <<180, <<250, 180>>>>, <<0, <<>>>> }

NavMsgs ==
    { NavMessage(q[1], q[2], ds) :
          q \in NavPoses, ds \in {<<>>, << <<"acorn", "C3", <<400, 300>>>> >>} }

NoNavMsg == NavMessage(0, <<>>, <<>>)

\* the target squares of the goals; "Z9" is no key of grid_centers
Goals == {"B1", "B2", "Z9"}

\* lines 142-146: the tuples detection_callback appends for the message m
NewDetections(m) ==
    LET n == Min(Min(Len(m.class_names), Len(m.grid_squares)), Len(m.center) \div 2)
    IN  [i \in 1 .. n |->
            <<m.class_names[i], m.grid_squares[i],
              <<m.center[2 * i - 1], m.center[2 * i]>>>>]

Abs(x) == IF x < 0 THEN -x ELSE x

\* np.sqrt(dx**2 + dy**2), rounded up: every comparison with a whole number is kept
Norm(dx, dy) ==
    CHOOSE e \in 0 .. (Abs(dx) + Abs(dy)) :
        e * e >= dx * dx + dy * dy /\ (e = 0 \/ (e - 1) * (e - 1) < dx * dx + dy * dy)

\* the direction of (dx, dy) in degrees; the poses of the model keep it on an axis
DirAngle(dx, dy) ==
    CASE dy = 0 /\ dx > 0 -> 0
      [] dx = 0 /\ dy > 0 -> 90
      [] dy = 0 /\ dx < 0 -> 180
      [] dx = 0 /\ dy < 0 -> 270

\* lines 94-103: arccos of the dot product of the unit vectors, in degrees: the
\* unsigned angle between the direction a and the heading h, in 0 .. 180
AngleBetween(a, h) ==
    LET d == (h - a) % 360 IN IF d > 180 THEN 360 - d ELSE d

Angle(t) == [nan |-> FALSE, deg |-> t]
NaN      == [nan |-> TRUE, deg |-> 0]

NavCommand(c, d) == [cmd |-> c, delay |-> d]      \* delay in tenths of a second

\* adjust_heading(theta): the directive passed to publish_command, <<>> when no
\* branch is taken; every comparison with nan is false
adjust_heading(t) ==
    IF t.nan THEN <<>>
    ELSE IF Abs(t.deg) < crawl_threshold THEN <<NavCommand("kcrF", 0)>>
    ELSE IF Abs(t.deg) > turn_threshold
        THEN (IF t.deg > 0 THEN <<NavCommand("kvtL", 5)>> ELSE <<NavCommand("kvtR", 5)>>)
    ELSE IF turn_threshold > Abs(t.deg) /\ Abs(t.deg) > crawl_threshold
        THEN (IF t.deg > 0 THEN <<NavCommand("kcrL", 5)>> ELSE <<NavCommand("kcrR", 5)>>)
    ELSE <<>>

\* move_towards_target(direction_vector) with self.current_heading = h: the error,
\* the angle and the directive passed to publish_command.  With error 0 the
\* divisions of lines 94-95 are 0/0: numpy gives nan and a warning, no exception.
move_towards_target(dv, h) ==
    LET dx == dv[1]
        dy == dv[2]
        e  == Norm(dx, dy)
        t  == IF e = 0 THEN NaN ELSE Angle(AngleBetween(DirAngle(dx, dy), h))
    IN  [error |-> e, theta |-> t,
         selected |-> IF e > Deadband THEN adjust_heading(t)
                      ELSE <<NavCommand("krest", 0)>>]

\* publish_command without the comparison with self.current_cmd
publish_command_always(command, cur) ==
    [current_cmd |-> command.cmd, pub |-> <<command>>]

\* publish_command(command, delay) with self.current_cmd = cur
publish_command(command, cur) ==
    IF command.cmd # cur
    THEN [current_cmd |-> command.cmd, pub |-> <<command>>]
    ELSE [current_cmd |-> cur, pub |-> <<>>]

\* an executor that starts a callback of the reentrant group while another one runs
CanStartReentrant(other) == TRUE

\* rclpy.spin(node) runs the node on the single-threaded executor: a callback is
\* taken only when no other callback is running, whatever its callback group
CanStart(other) == other = "idle"

navShared == <<node, now, msg, listVars, proposal, drvVars, cmdVars>>

\* detection_callback, line 140, on the message m
DetectionHeading(m) ==
    /\ node = "nav"
    /\ ~halted
    /\ dpc = "idle"
    /\ CanStart(epc)
    /\ Len(detections) + Len(NewDetections(m)) <= MaxNavDets
    /\ dmsg' = m
    /\ current_heading' = <<m.april_tag_orientation>>
    /\ dpc' = "position"
    /\ UNCHANGED <<navShared, halted, fault, target_square, current_position, error,
                   detections, current_cmd, previous_robot_position, epc,
                   direction_vector, nav_heading, theta, selected, nav_pub, last_pub,
                   goal_status, nav_step>>

\* detection_callback, lines 141-149
DetectionRest ==
    /\ node = "nav"
    /\ ~halted
    /\ dpc = "position"
    /\ current_position' = dmsg.april_tag_location
    /\ detections' = detections \o NewDetections(dmsg)
    /\ dpc' = "idle"
    /\ UNCHANGED <<navShared, halted, fault, target_square, current_heading, error,
                   current_cmd, previous_robot_position, dmsg, epc, direction_vector,
                   nav_heading, theta, selected, nav_pub, last_pub, goal_status,
                   nav_step>>

\* execute_callback, lines 53-61, and navigate_to_target, on the goal with target g
ExecuteBegin(g) ==
    /\ node = "nav"
    /\ ~halted
    /\ epc = "idle"
    /\ CanStart(dpc)
    /\ target_square' = g
    /\ selected' = <<>>
    /\ nav_pub' = <<>>
    /\ IF error = <<>> \/ error[1] > Deadband
       THEN IF current_heading = <<>> \/ detections = <<>> \/ current_position = <<>>
            THEN \* navigate_to_target returns early; no terminal state was set
                 /\ nav_step' = "skipped"
                 /\ goal_status' = "aborted"
                 /\ UNCHANGED <<halted, fault, previous_robot_position, epc,
                                direction_vector>>
            ELSE /\ previous_robot_position' = current_position
                 /\ IF g \in GridCells
                    THEN LET target_position == grid_centers(g)
                             robot_position == current_position
                         IN  /\ direction_vector' =
                                    <<target_position[1] - robot_position[1],
                                      robot_position[2] - target_position[2]>>
                             /\ epc' = "move"
                             /\ nav_step' = "none"
                             /\ goal_status' = "executing"
                             /\ UNCHANGED <<halted, fault>>
                    ELSE \* grid_centers[...] raises KeyError: the action server logs it
                         \* and aborts the goal, or lets it end rclpy.spin
                         /\ fault' = "KeyError"
                         /\ halted' \in BOOLEAN
                         /\ nav_step' = "none"
                         /\ goal_status' = "aborted"
                         /\ UNCHANGED <<epc, direction_vector>>
       ELSE \* goal_handle.succeed()
            /\ nav_step' = "none"
            /\ goal_status' = "succeeded"
            /\ UNCHANGED <<halted, fault, previous_robot_position, epc, direction_vector>>
    /\ UNCHANGED <<navShared, current_heading, current_position, error, detections,
                   current_cmd, dmsg, dpc, nav_heading, theta, last_pub>>

\* move_towards_target, adjust_heading and publish_command, lines 88-137
ExecuteMove ==
    /\ node = "nav"
    /\ ~halted
    /\ epc = "move"
    /\ LET r == move_towards_target(direction_vector, current_heading[1])
           p == IF r.selected = <<>> THEN [current_cmd |-> current_cmd, pub |-> <<>>]
                ELSE publish_command(r.selected[1], current_cmd)
       IN  /\ error' = <<r.error>>
           /\ nav_heading' = current_heading
           /\ theta' = <<r.theta>>
           /\ selected' = r.selected
           /\ current_cmd' = p.current_cmd
           /\ nav_pub' = p.pub
           /\ last_pub' = IF p.pub = <<>> THEN last_pub ELSE p.pub[1].cmd
    /\ nav_step' = "ran"
    /\ goal_status' = "aborted"
    /\ epc' = "idle"
    /\ direction_vector' = <<>>
    /\ UNCHANGED <<navShared, halted, fault, target_square, current_heading,
                   current_position, detections, previous_robot_position, dmsg, dpc>>

---------------------------------------------------------------------------
(* The state after construction *)

InitState ==
    [found_acorn |-> FALSE, found_black_pheromone |-> FALSE,
     found_white_pheromone |-> FALSE, searching |-> TRUE, collecting |-> FALSE,
     collected |-> FALSE, black_pheromones_dropped |-> 0,
     white_pheromones_dropped |-> 0, returning |-> FALSE, mission_complete |-> FALSE,
     observing |-> FALSE]

InitCommon ==
    /\ halted = FALSE
    /\ fault = "none"
    /\ now = Epoch
    /\ msg = NoMsg
    /\ acorn_list = <<>>
    /\ black_pheromone_list = <<>>
    /\ white_pheromone_list = <<>>
    /\ proposal = <<>>
    /\ dir = 0
    /\ num_commands_sent = 0
    /\ last_command_time = 0
    /\ found_acorn = FALSE
    /\ searching = TRUE
    /\ collecting = FALSE
    /\ black_pheromones_dropped = 0
    /\ white_pheromones_dropped = 0
    /\ ser = <<>>
    /\ task = NoTask
    /\ current_state = InitState
    /\ command_list = <<>>
    /\ command_pub = <<>>
    /\ target_square = "None"
    /\ current_heading = <<>>
    /\ current_position = <<>>
    /\ error = <<>>
    /\ detections = <<>>
    /\ current_cmd = "Krest"
    /\ previous_robot_position = <<>>
    /\ dmsg = NoNavMsg
    /\ dpc = "idle"
    /\ epc = "idle"
    /\ direction_vector = <<>>
    /\ nav_heading = <<>>
    /\ theta = <<>>
    /\ selected = <<>>
    /\ nav_pub = <<>>
    /\ last_pub = "none"
    /\ goal_status = "none"
    /\ nav_step = "none"

InitDriver == node = "driver" /\ InitCommon

DrvCycle == \E m \in DrvBatches : DrvCallback(m)

NextDriver == DrvCycle \/ Tick

SpecDriver == InitDriver /\ [][NextDriver]_vars

\* the driver node on a serial port whose writes may fail
DrvWriteFailCycle == \E m \in DrvBatches : DrvCallbackWriteFails(m)

SpecTransmit == InitDriver /\ [][NextDriver \/ DrvWriteFailCycle]_vars

\* the encoder of the driver applied to every task
EncodeCycle == \E t \in EncTasks : WrapperCall(t)

SpecEncoder == InitDriver /\ [][EncodeCycle]_vars

InitCommand == node = "to_command" /\ InitCommon

CmdCycle == \E m \in CmdBatches : CmdCallback(m)

SpecCommand == InitCommand /\ [][CmdCycle]_vars

\* the to_command node fed every message, the malformed ones too
CmdAnyCycle == \E m \in AnyCmdBatches : CmdCallback(m)

SpecMalformed == InitCommand /\ [][CmdAnyCycle]_vars

\* process_detections and update_state alone (detection_callback, lines 49-50): the
\* mission state as update_state drives it, apart from what the cycle does next
UpdateCycle(m) ==
    /\ node = "to_command"
    /\ ~halted
    /\ msg' = m
    /\ acorn_list' = AcornList(m)
    /\ black_pheromone_list' = BlackList(m)
    /\ white_pheromone_list' = WhiteList(m)
    /\ LET u == update_state(current_state, acorn_list', black_pheromone_list',
                             white_pheromone_list')
       IN  /\ current_state' = u.cs
           /\ halted' = (u.err # "none")
           /\ fault' = u.err
    /\ UNCHANGED <<node, now, proposal, command_list, command_pub, drvVars, navVars>>

UpdateAnyCycle == \E m \in CmdBatches : UpdateCycle(m)

SpecUpdateState == InitCommand /\ [][UpdateAnyCycle]_vars

\* process_detections, update_state and decide_command alone (detection_callback,
\* lines 49-51): the command the decision yields in every mission state, apart from
\* what the arbitration does with it
DecideCycle(m) ==
    /\ node = "to_command"
    /\ ~halted
    /\ msg' = m
    /\ acorn_list' = AcornList(m)
    /\ black_pheromone_list' = BlackList(m)
    /\ white_pheromone_list' = WhiteList(m)
    /\ LET u == update_state(current_state, acorn_list', black_pheromone_list',
                             white_pheromone_list')
           c == decide_command(u.cs, acorn_list', black_pheromone_list',
                               white_pheromone_list')
       IN  /\ current_state' = u.cs
           /\ IF u.err # "none"
              THEN /\ halted' = TRUE
                   /\ fault' = u.err
                   /\ proposal' = <<>>
              ELSE /\ halted' = (c.err # "none")
                   /\ fault' = c.err
                   /\ proposal' = IF c.err = "none" THEN <<c.val>> ELSE <<>>
    /\ UNCHANGED <<node, now, command_list, command_pub, drvVars, navVars>>

DecideAnyCycle == \E m \in CmdBatches : DecideCycle(m)

SpecDecide == InitCommand /\ [][DecideAnyCycle]_vars

InitNav == node = "nav" /\ InitCommon

DetectionCycle == \E m \in NavMsgs : DetectionHeading(m)

GoalCycle == \E g \in Goals : ExecuteBegin(g)

NextNav == DetectionCycle \/ DetectionRest \/ GoalCycle \/ ExecuteMove

SpecNav == InitNav /\ [][NextNav]_vars

\* either detection node of the archive
Init == InitDriver \/ InitCommand

Next == DrvCycle \/ Tick \/ CmdCycle

Spec == Init /\ [][Next]_vars

---------------------------------------------------------------------------
(* Properties *)

IsDriver  == node = "driver"
IsCommand == node = "to_command"

\* the command string of a buffered proposal: of [cmd, delay], or of the first
\* pair of [[cmd, delay], ...]
Token(e) == IF e.v[1].t = "str" THEN e.v[1].v ELSE e.v[1].v[1].v
Delay(e) == IF e.v[1].t = "str" THEN e.v[2].v ELSE e.v[1].v[2].v

Occurrences(buf, tok) == Cardinality({i \in 1 .. Len(buf) : Token(buf[i]) = tok})

\* the earliest buffer position whose token has the highest occurrence count
ModeIndex(buf) ==
    CHOOSE i \in 1 .. Len(buf) :
        /\ \A j \in 1 .. Len(buf) :
              Occurrences(buf, Token(buf[j])) <= Occurrences(buf, Token(buf[i]))
        /\ \A j \in 1 .. (i - 1) :
              Occurrences(buf, Token(buf[j])) < Occurrences(buf, Token(buf[i]))

(* C1: after a cycle that leaves a non-empty buffer, the command handed to  *)
(* dispatch is the buffered entry at the earliest position whose token has  *)
(* the highest count in the buffer.                                         *)
C1_ArbitrationDispatch ==
    (IsCommand /\ command_list # <<>>) =>
        command_pub = <<[cmd   |-> Token(command_list[ModeIndex(command_list)]),
                         delay |-> Delay(command_list[ModeIndex(command_list)])]>>

(* C2: at the end of every detection cycle the buffer holds at most 5       *)
(* proposals.                                                               *)
C2_BufferBound == IsCommand => Len(command_list) <= 5

\* the slices of the detections of m at the indices I, in batch order
RECURSIVE SlicesAt(_, _, _)
SlicesAt(m, I, k) ==
    IF k > Len(m.results) THEN <<>>
    ELSE IF k \in I THEN <<Slice(m.xywhn_list, k - 1)>> \o SlicesAt(m, I, k + 1)
    ELSE SlicesAt(m, I, k + 1)

(* C3: for a batch whose class-id count equals its bbox-tuple count, the    *)
(* three per-class lists are a partition of the batch: every detection is   *)
(* in exactly one list, so the lengths add up to the number of detections.  *)
C3_Partition ==
    (IsCommand /\ Len(msg.xywhn_list) = 4 * Len(msg.results)) =>
        /\ Len(acorn_list) + Len(black_pheromone_list) + Len(white_pheromone_list)
               = Len(msg.results)
        /\ \E A \in SUBSET (1 .. Len(msg.results)) :
           \E B \in SUBSET (1 .. Len(msg.results)) :
              /\ A \cap B = {}
              /\ acorn_list = SlicesAt(msg, A, 1)
              /\ black_pheromone_list = SlicesAt(msg, B, 1)
              /\ white_pheromone_list =
                     SlicesAt(msg, (1 .. Len(msg.results)) \ (A \cup B), 1)

(* C4: a cycle on a malformed batch (counts disagree, or a class id other   *)
(* than 0, 1, 2) is skipped: the mission state and the command buffer are   *)
(* unchanged and no command is dispatched.                                  *)
C4_MalformedSkipped ==
    [][ (IsCommand /\ ~WellFormed(msg')) =>
            /\ current_state' = current_state
            /\ command_list' = command_list
            /\ command_pub' = <<>> ]_vars

\* the move a proposal stands for, in either node
Move ==
    IF proposal = <<>> THEN "none"
    ELSE IF IsDriver
        THEN CASE proposal[1] = TurnRight   -> "TurnRight"
               [] proposal[1] = TurnLeft    -> "TurnLeft"
               [] proposal[1] = MoveForward -> "MoveForward"
               [] proposal[1] = Collect     -> "Collect"
               [] proposal[1] = SpinSearch  -> "SpinSearch"
               [] proposal[1] = Balance     -> "Balance"
               [] OTHER                     -> "other"
        ELSE CASE Token(proposal[1]) = "kcrR"  -> "TurnRight"
               [] Token(proposal[1]) = "kcrL"  -> "TurnLeft"
               [] Token(proposal[1]) = "kcrF"  -> "MoveForward"
               [] Token(proposal[1]) = "krest" -> "Rest"
               [] OTHER                        -> "other"

\* the mission phase flags of either node
Searching  == IF IsDriver THEN searching ELSE current_state.searching
FoundAcorn == IF IsDriver THEN found_acorn ELSE current_state.found_acorn

\* the detection list the decision of the last cycle followed (<<>>: none)
Tracked ==
    IF IsDriver
    THEN IF acorn_list # <<>> THEN acorn_list
         ELSE IF ~searching THEN <<>>
         ELSE IF black_pheromone_list # <<>> THEN black_pheromone_list
         ELSE white_pheromone_list
    ELSE IF current_state.found_acorn
         THEN (IF current_state.collecting THEN <<>> ELSE acorn_list)
         ELSE IF current_state.found_black_pheromone THEN black_pheromone_list
         ELSE IF current_state.found_white_pheromone THEN white_pheromone_list
         ELSE <<>>

\* the horizontal thresholds of the node
UpperX == IF IsDriver THEN RightX ELSE FollowRightX
LowerX == IF IsDriver THEN LeftX ELSE FollowLeftX

(* C5 as stated: when the x of the last entry of the followed list is       *)
(* exactly 0.75 or 0.25 the proposal is MoveForward; TurnRight only for     *)
(* x > 0.75 and TurnLeft only for x < 0.25.                                 *)
C5_ExactThresholds_Stated ==
    (proposal # <<>> /\ Tracked # <<>>) =>
        LET x == Last(Tracked)[1] IN
        /\ x \in {RightX, LeftX} => Move = "MoveForward"
        /\ Move = "TurnRight" => x > RightX
        /\ Move = "TurnLeft" => x < LeftX

(* C5 amended: the thresholds are strict in both nodes, 0.75 and 0.25 in    *)
(* the driver, 0.7 and 0.3 in follow_object.  On a threshold the proposal   *)
(* is MoveForward, or Collect in the driver when the list is the acorn list *)
(* and y > 0.85; TurnRight is proposed exactly above the upper threshold    *)
(* and TurnLeft exactly below the lower one.                                *)
C5_ExactThresholds ==
    (proposal # <<>> /\ Tracked # <<>>) =>
        LET x == Last(Tracked)[1]
            y == Last(Tracked)[2]
        IN
        /\ x \in {UpperX, LowerX} =>
               Move = IF IsDriver /\ acorn_list # <<>> /\ y > CollectY
                      THEN "Collect" ELSE "MoveForward"
        /\ Move = "TurnRight" <=> x > UpperX
        /\ Move = "TurnLeft" <=> x < LowerX

\* the driver went straight on a black pheromone that sits on the upper threshold
C5_Witness ==
    /\ IsDriver
    /\ proposal = <<MoveForward>>
    /\ acorn_list = <<>>
    /\ black_pheromone_list # <<>>
    /\ Last(black_pheromone_list)[1] = RightX

\* the move the node derives from the list l
Derived(l) ==
    LET x == Last(l)[1]
        y == Last(l)[2]
    IN  IF x > UpperX THEN "TurnRight"
        ELSE IF x < LowerX THEN "TurnLeft"
        ELSE IF IsDriver /\ l = acorn_list /\ y > CollectY THEN "Collect"
        ELSE "MoveForward"

(* C6 as stated: in every reachable mission state the proposal is derived   *)
(* from the acorn list if it is non-empty, else from the black-pheromone    *)
(* list if it is non-empty, else from the white-pheromone list if it is     *)
(* non-empty, else it is SpinSearch.                                        *)
C6_Priority_Stated ==
    proposal # <<>> =>
        Move = IF acorn_list # <<>> THEN Derived(acorn_list)
               ELSE IF black_pheromone_list # <<>> THEN Derived(black_pheromone_list)
               ELSE IF white_pheromone_list # <<>> THEN Derived(white_pheromone_list)
               ELSE "SpinSearch"

(* C6 amended: the priority acorn, black pheromone, white pheromone,        *)
(* SpinSearch holds in the driver until an acorn has been seen; from then   *)
(* on a cycle without acorn proposes Balance whatever the pheromone lists   *)
(* hold.  The to_command node follows the list of what it has ever found    *)
(* (acorn, else black, else white), proposes Rest while that list is empty  *)
(* or nothing has been found, and never proposes SpinSearch.                *)
C6_Priority ==
    proposal # <<>> =>
        Move = IF IsDriver
               THEN IF acorn_list # <<>> THEN Derived(acorn_list)
                    ELSE IF found_acorn THEN "Balance"
                    ELSE IF black_pheromone_list # <<>>
                         THEN Derived(black_pheromone_list)
                    ELSE IF white_pheromone_list # <<>>
                         THEN Derived(white_pheromone_list)
                    ELSE "SpinSearch"
               ELSE LET followed ==
                            IF current_state.found_acorn THEN acorn_list
                            ELSE IF current_state.found_black_pheromone
                                 THEN black_pheromone_list
                            ELSE IF current_state.found_white_pheromone
                                 THEN white_pheromone_list
                            ELSE <<>>
                    IN  IF followed # <<>> THEN Derived(followed) ELSE "Rest"

\* the driver has seen an acorn, lost it, and proposes Balance in front of a pheromone
C6_Witness ==
    /\ IsDriver
    /\ found_acorn
    /\ acorn_list = <<>>
    /\ black_pheromone_list # <<>>
    /\ proposal = <<Balance>>

(* C7 as stated: whenever the driver follows the acorn list and the last    *)
(* acorn has y > 0.85 the proposal is Collect, whatever its x.              *)
C7_CollectOverride_Stated ==
    (IsDriver /\ proposal # <<>> /\ acorn_list # <<>>
        /\ Last(acorn_list)[2] > CollectY) => proposal = <<Collect>>

(* C7 amended: the horizontal thresholds come first.  When the driver       *)
(* follows the acorn list the proposal is Collect exactly when the last     *)
(* acorn has y > 0.85 and 0.25 <= x <= 0.75; outside that band the          *)
(* proposal is TurnRight (x > 0.75) or TurnLeft (x < 0.25) whatever y is.   *)
C7_CollectOverride ==
    (IsDriver /\ proposal # <<>> /\ acorn_list # <<>>) =>
        LET x == Last(acorn_list)[1]
            y == Last(acorn_list)[2]
        IN  /\ proposal = <<Collect>> <=> (y > CollectY /\ LeftX <= x /\ x <= RightX)
            /\ x > RightX => proposal = <<TurnRight>>
            /\ x < LeftX => proposal = <<TurnLeft>>

\* the driver proposes Collect for an acorn on the upper x threshold, low in the frame
C7_Witness ==
    /\ IsDriver
    /\ proposal = <<Collect>>
    /\ acorn_list # <<>>
    /\ Last(acorn_list)[1] = RightX
    /\ Last(acorn_list)[2] > CollectY

(* C8: in a detection cycle of the driver a drop directive is selected      *)
(* only if at least 5 seconds have passed since last_command_time; below    *)
(* 5 seconds the proposal is passed on unchanged; when the override fires   *)
(* after an acorn was found it yields DropType1 with black_dropped <= 9     *)
(* and DropType2 with black_dropped = 10.                                   *)
C8_DropOverrideGating ==
    [][ /\ (IsDriver /\ now' = now /\ proposal' # <<>>) =>
              LET elapsed == now - last_command_time IN
              /\ dir' \in DropDirs => elapsed >= 5
              /\ elapsed < 5 => dir' = proposal'[1]
              /\ (elapsed >= 5 /\ found_acorn') =>
                     dir' = IF black_pheromones_dropped <= 9 THEN DropType1
                            ELSE DropType2
        /\ DropOverride(5, TRUE, FALSE, 10, 0, MoveForward) = DropType2
        /\ DropOverride(5, TRUE, FALSE, 9, 0, MoveForward) = DropType1
        /\ DropOverride(4, TRUE, FALSE, 10, 0, MoveForward) = MoveForward
      ]_vars

\* the third dispatch of a run: the override replaced the proposal TurnRight by
\* kpone, after a cycle inside the interval had passed its proposal on
C8_Witness ==
    /\ IsDriver
    /\ dir = DropType1
    /\ proposal = <<TurnRight>>
    /\ num_commands_sent = 3
    /\ ser = <<"k", "p", "o", "n", "e", "\n">>

C10_SearchingToPursuing ==
    [][ /\ (Searching /\ acorn_list' # <<>> /\ now' = now) =>
              /\ ~Searching'
              /\ FoundAcorn'
              /\ proposal' # <<>>
              /\ Move' = Derived(acorn_list)'
              /\ Last(acorn_list')[1] = 80 => Move' = "TurnRight"
        /\ ~Searching => ~Searching'
      ]_vars

\* the first cycle after start-up: the driver saw the acorn at (0.8, 0.5)
C10_Witness ==
    /\ IsDriver
    /\ found_acorn
    /\ ~searching
    /\ proposal = <<TurnRight>>
    /\ Last(acorn_list) = <<80, 50, 10, 10>>
    /\ num_commands_sent = 1

IsNav == node = "nav"

(* C11: in any detection cycle where the phase is Pursuing and the last     *)
(* acorn has y > 0.9, update_state makes the phase Collecting in that       *)
(* cycle, whatever pheromones the batch holds and whether or not            *)
(* pheromones have been seen before.                                        *)
C11_PursuingToCollecting ==
    [][ (/\ IsCommand
         /\ current_state.found_acorn
         /\ ~current_state.searching
         /\ ~current_state.collecting
         /\ acorn_list' # <<>>
         /\ Last(acorn_list')[2] > CollectingY)
        => current_state'.collecting ]_vars

(* C12: the navigation controller publishes a directive only when it        *)
(* differs from the directive published last, so no two consecutively       *)
(* published commands are equal, and a step that selects the directive      *)
(* published last publishes nothing.                                        *)
C12_Debounce ==
    [][ (IsNav /\ epc = "move" /\ epc' = "idle") =>
            /\ nav_pub' # <<>> =>
                   /\ nav_pub' = selected'
                   /\ selected'[1].cmd # last_pub
                   /\ last_pub' = selected'[1].cmd
            /\ (selected' # <<>> /\ selected'[1].cmd = last_pub) =>
                   /\ nav_pub' = <<>>
                   /\ last_pub' = last_pub
      ]_vars

\* a second step selected the directive published last, and published nothing
C12_Witness ==
    /\ IsNav
    /\ nav_step = "ran"
    /\ selected # <<>>
    /\ nav_pub = <<>>
    /\ selected[1].cmd = last_pub

(* C13: directive selection is total: error <= 20 selects Rest; for         *)
(* error > 20 exactly one directive is selected: |theta| < 10 crawl         *)
(* forward, |theta| > 40 a fast spin, every other angle, 10 and 40          *)
(* included, a slow arc-turn.                                               *)
C13_DirectiveBands ==
    (IsNav /\ nav_step = "ran") =>
        IF error[1] <= 20 THEN selected = <<NavCommand("krest", 0)>>
        ELSE /\ ~theta[1].nan
             /\ Len(selected) = 1
             /\ LET t == Abs(theta[1].deg)
                    c == selected[1].cmd
                IN  /\ t < 10 => c = "kcrF"
                    /\ t > 40 => c \in {"kvtL", "kvtR"}
                    /\ (10 <= t /\ t <= 40) => c \in {"kcrL", "kcrR"}

\* the sign of the cross product of the unit vector of direction a and the unit
\* vector of heading h: the sign of sin(h - a)
CrossSign(a, h) ==
    LET d == (h - a) % 360 IN
    IF d = 0 \/ d = 180 THEN 0 ELSE IF d < 180 THEN 1 ELSE -1

\* the direction of travel of the last navigation step, in degrees
TravelAngle ==
    DirAngle(grid_centers(target_square)[1] - previous_robot_position[1],
             previous_robot_position[2] - grid_centers(target_square)[2])

(* C14: in a step that selects a turn, the direction follows the sign of    *)
(* the cross product of the travel vector and the heading vector: a left    *)
(* turn (kvtL, kcrL) for the positive sign, a right turn (kvtR, kcrR) for   *)
(* the negative one.                                                        *)
C14_SignedTurn ==
    (IsNav /\ nav_step = "ran" /\ selected # <<>>
        /\ selected[1].cmd \in {"kvtL", "kvtR", "kcrL", "kcrR"}) =>
        LET sign == CrossSign(TravelAngle, nav_heading[1]) IN
        /\ sign = 1 => selected[1].cmd \in {"kvtL", "kcrL"}
        /\ sign = -1 => selected[1].cmd \in {"kvtR", "kcrR"}

(* C15: a navigation step with the robot exactly on the target centre       *)
(* (error = 0) selects Rest without dividing by the error: no undefined     *)
(* angle is computed in any reachable state.                                *)
C15_ZeroDistance ==
    (IsNav /\ nav_step = "ran") =>
        /\ ~theta[1].nan
        /\ error = <<0>> => selected = <<NavCommand("krest", 0)>>

(* C16: a goal whose target is none of the 16 registered cells is rejected  *)
(* in every controller state: it is never marked succeeded and no           *)
(* directive is dispatched for it.                                          *)
C16_UnknownTarget ==
    (IsNav /\ target_square # "None" /\ target_square \notin GridCells) =>
        /\ goal_status # "succeeded"
        /\ nav_pub = <<>>

(* C17: after a goal whose navigation step was skipped for want of a pose,  *)
(* the pose update that delivers heading and position runs a navigation     *)
(* step toward that goal's target, without a new goal.                      *)
C17_ResumeOnPoseFix ==
    [][ (/\ IsNav
         /\ nav_step = "skipped"
         /\ target_square \in GridCells
         /\ dpc = "position" /\ dpc' = "idle"
         /\ current_heading' # <<>> /\ current_position' # <<>>
         /\ detections' # <<>>)
        => nav_step' = "ran" ]_vars

(* C18: the goal-execution handler and the detection handler never run      *)
(* interleaved: a navigation step uses a heading and a position written by  *)
(* one and the same detection message.                                      *)
C18_Serialized ==
    IsNav =>
        /\ ~(dpc # "idle" /\ epc # "idle")
        /\ epc = "move" =>
               \E q \in NavPoses : current_heading = <<q[1]>> /\ current_position = q[2]
        /\ nav_step = "ran" =>
               \E q \in NavPoses : nav_heading = <<q[1]>> /\ previous_robot_position = q[2]

\* a navigation step has run, and a detection handler that started after it has
\* written a new heading and not yet the position
C18_Witness ==
    /\ IsNav
    /\ nav_step = "ran"
    /\ dpc = "position"
    /\ current_heading # nav_heading
    /\ current_position = previous_robot_position

(* C19: the detection collection visible after a detection cycle holds      *)
(* exactly the detections of that cycle's batch, in every component; after  *)
(* an empty batch it is empty.                                              *)
C19_PerCycleSnapshot ==
    /\ (IsNav /\ dpc = "idle") => detections = NewDetections(dmsg)
    /\ IsCommand =>
           /\ acorn_list = AcornList(msg)
           /\ black_pheromone_list = BlackList(msg)
           /\ white_pheromone_list = WhiteList(msg)

(* C20: when the serial write of a dispatch fails, dir, num_commands_sent,  *)
(* last_command_time and the pheromone counters are unchanged and the node  *)
(* goes on, so that a following cycle that decides the same directive       *)
(* dispatches it again.                                                     *)
C20_TransmitFailure ==
    [][ (IsDriver /\ fault' = "SerialException") =>
            /\ dir' = dir
            /\ num_commands_sent' = num_commands_sent
            /\ last_command_time' = last_command_time
            /\ black_pheromones_dropped' = black_pheromones_dropped
            /\ white_pheromones_dropped' = white_pheromones_dropped
            /\ ~halted'
      ]_vars

\* the (token, args) tasks: [token, delay] has no arguments, [token, ints, delay] has
\* the ints
TokenArgs(t) == t.len = 2 \/ (t.len = 3 /\ t.var.ints)
TaskArgs(t) == IF t.len = 2 THEN <<>> ELSE t.var.v
PairTokens == {<<"c">>, <<"m">>, <<"u">>, <<"b">>}
ByteTokens == {<<"l">>, <<"i">>}

(* C21: every (token, args) task handed to the encoder is written in the    *)
(* framing of its token's class: a token starting with 'w' or 'k' as the    *)
(* whole token and a newline; 'l'/'i' as the token character, one byte per  *)
(* argument and '~'; 'c'/'m'/'u'/'b' with two arguments as token, arg0,     *)
(* space, arg1, newline; any other one-character token as that character.   *)
C21_Framing ==
    (IsDriver /\ TokenArgs(task)) =>
        LET tok  == task.token
            args == TaskArgs(task)
        IN  CASE tok[1] \in {"w", "k"} ->
                     fault = "none" /\ ser = tok \o <<"\n">>
              [] tok \in ByteTokens /\ \A k \in 1 .. Len(args) : SignedByte(args[k]) ->
                     /\ fault = "none"
                     /\ Len(ser) = Len(args) + 2
                     /\ ser[1] = tok[1]
                     /\ ser[Len(ser)] = "~"
              [] tok \in PairTokens /\ Len(args) = 2 ->
                     /\ fault = "none"
                     /\ ser = tok \o str(args[1]) \o <<" ">> \o str(args[2]) \o <<"\n">>
              [] Len(tok) = 1 /\ tok \notin ByteTokens \cup PairTokens
                              /\ tok[1] \notin {"w", "k"} ->
                     fault = "none" /\ ser = tok
              [] OTHER -> TRUE


\* x occurs in y in order, not necessarily in one piece
RECURSIVE Within(_, _)
Within(x, y) ==
    IF x = <<>> THEN TRUE
    ELSE IF y = <<>> THEN FALSE
    ELSE IF Head(x) = Head(y) THEN Within(Tail(x), Tail(y))
    ELSE Within(x, Tail(y))
\* the argument count and range of each token class
ValidArgs(tok, args) ==
    IF tok \in PairTokens THEN Len(args) = 2
    ELSE IF tok \in ByteTokens THEN \A k \in 1 .. Len(args) : SignedByte(args[k])
    ELSE args = <<>>
\* the numerals of the arguments one after the other
ArgText(args) == Flatten([k \in 1 .. Len(args) |-> str(args[k])])

(* C22: a task whose argument count or range does not fit its token class   *)
(* makes the encoder fail (under whatever exception name) with nothing      *)
(* written; a task that is written carries every supplied argument, in      *)
(* order; and a failure writes nothing.                                     *)
C22_Validation ==
    (IsDriver /\ TokenArgs(task)) =>
        LET tok  == task.token
            args == TaskArgs(task)
        IN  /\ ~ValidArgs(tok, args) => (fault # "none" /\ ser = <<>>)
            /\ (fault = "none" /\ tok \notin ByteTokens) => Within(ArgText(args), ser)
            /\ fault # "none" => ser = <<>>


\* the distance from the robot's current position to the center of the cell c
DistanceTo(c) ==
    Norm(grid_centers(c)[1] - current_position[1], current_position[2] - grid_centers(c)[2])

(* C23: a goal for a registered cell is marked succeeded only if the        *)
(* robot's current distance to the center of that goal's own target cell is *)
(* within the deadband.                                                     *)
C23_GoalSuccess ==
    (/\ IsNav
     /\ goal_status = "succeeded"
     /\ target_square \in GridCells
     /\ current_position # <<>>)
    => DistanceTo(target_square) <= Deadband


\* the acorn was found, the drop directive of that phase was dispatched last, and the
\* drop interval has passed since
Locked ==
    /\ IsDriver
    /\ found_acorn
    /\ dir = DropType1
    /\ black_pheromones_dropped <= DropSwitch
    /\ now - last_command_time >= DropInterval

\* from a Locked state no step dispatches: the override selects the directive that
\* self.dir already holds, and the state stays Locked
LockedForGood ==
    [][ Locked =>
            /\ Locked'
            /\ num_commands_sent' = num_commands_sent
            /\ last_command_time' = last_command_time
            /\ task' = task
            /\ (ser' = <<>> \/ ser' = ser) ]_vars

(* C24: the drop override, the duplicate suppression and the update of      *)
(* last_command_time on dispatch only never produce a state of the driver   *)
(* from which every future detection cycle is suppressed.                   *)
C24_NoLock == ~Locked


(* C25: every detection cycle of object_detection_to_command returns: the   *)
(* decision of a cycle, collect_acorn in phase Collecting included, yields  *)
(* its command after finitely many steps.                                   *)
C25_CycleTerminates == IsCommand => fault # "NoReturn"

=============================================================================
